---- MODULE Spec2Model ----
(***************************************************************************)
(* Frame generation of the text-reveal video scripts.                      *)
(*                                                                         *)
(*   simple.py   generate_typing_video / TypingFrameGenerator / main       *)
(*   teens.py    generate_quote_video / GeometricBackground / main         *)
(*   254myth.py  Video254Factory (load_poster, typewriter_effect,          *)
(*               generate_video_pack) and the two tabs                     *)
(*                                                                         *)
(* A text is a sequence of one-character strings.  Times and progress      *)
(* values are kept as exact fractions of the frame index: with fps = 24    *)
(* the frame time is frame_idx / 24 and simple.py's progress is            *)
(* (frame_idx + 1) / total_frames.  A frame is the record of what the      *)
(* renderer drew: the background it was given, the logo and the text       *)
(* lines.  Pixel-level drawing is not modelled.                            *)
(***************************************************************************)
EXTENDS Integers, Sequences, FiniteSets, TLC

(***************************************************************************)
(* Bounds of the model.                                                    *)
(***************************************************************************)
\* longest enumerated input text
MaxLen == 3
\* longest enumerated duration, in seconds, of a simple.py run
MaxDuration == 3

Alphabet == {"a", "b", " "}

\* every text of at most MaxLen characters over Alphabet
ShortTexts == UNION {[1..n -> Alphabet] : n \in 0..MaxLen}

\* simple.py:619, the text the text area starts with
default_text ==
    << "P", "r", "e", "-", "d", "r", "i", "l", "l", " ", "h", "o",
       "l", "e", "s", " ", "b", "e", "f", "o", "r", "e", " ", "d",
       "r", "i", "v", "i", "n", "g", " ", "s", "c", "r", "e", "w",
       "s", " ", "i", "n", "t", "o", " ", "h", "a", "r", "d", "w",
       "o", "o", "d", " ", "t", "o", " ", "p", "r", "e", "v", "e",
       "n", "t", " ", "s", "p", "l", "i", "t", "t", "i", "n", "g",
       " ", "a", "n", "d", " ", "e", "n", "s", "u", "r", "e", " ",
       "c", "l", "e", "a", "n", " ", "f", "i", "n", "i", "s", "h",
       "e", "s", "." >>

\* the text of the specification's worked example
HelloWorld == << "H", "E", "L", "L", "O", " ", "W", "O", "R", "L", "D" >>

\* a quote whose first word is wider than the narrowest text box of teens.py
LongWordText ==
    [n \in 1..16 |-> "a"] \o << " ", "b", " ", "b", "a" >>

(***************************************************************************)
(* Python string helpers.                                                  *)
(***************************************************************************)
\* the positions at which a word of s starts, and where the word starting at
\* position i ends
WordStarts(s) == {i \in 1..Len(s) : s[i] # " " /\ (i = 1 \/ s[i - 1] = " ")}
WordEnd(s, i) ==
    CHOOSE j \in i..Len(s) :
        /\ \A m \in i..j : s[m] # " "
        /\ (j = Len(s) \/ s[j + 1] = " ")

\* str.split(): the maximal runs of non-whitespace characters, in order
split(s) ==
    LET starts == WordStarts(s)
        nth(n) == CHOOSE i \in starts : Cardinality({j \in starts : j < i}) = n - 1
    IN  [n \in 1..Cardinality(starts) |-> SubSeq(s, nth(n), WordEnd(s, nth(n)))]

RECURSIVE JoinFrom(_, _)
JoinFrom(words, k) ==
    IF k > Len(words) THEN << >>
    ELSE IF k = Len(words) THEN words[k]
    ELSE words[k] \o << " " >> \o JoinFrom(words, k + 1)

\* ' '.join(words)
join(words) == JoinFrom(words, 1)

\* variant of strip that strips nothing (the text tested as typed)
no_strip(s) == s

\* str.strip(): s without its leading and trailing whitespace
RECURSIVE strip(_)
strip(s) ==
    IF s = << >> THEN s
    ELSE IF Head(s) = " " THEN strip(Tail(s))
    ELSE IF s[Len(s)] = " " THEN strip(SubSeq(s, 1, Len(s) - 1))
    ELSE s

\* s[:n] for 0 <= n
Prefix(s, n) == SubSeq(s, 1, IF n < Len(s) THEN n ELSE Len(s))

RECURSIVE SumLen(_)
\* sum(len(line) for line in lines)
SumLen(lines) == IF lines = << >> THEN 0 ELSE Len(Head(lines)) + SumLen(Tail(lines))

Min(a, b) == IF a < b THEN a ELSE b
Max(a, b) == IF a > b THEN a ELSE b

(***************************************************************************)
(* simple.py                                                               *)
(***************************************************************************)
\* simple.py:512
fps == 24

\* simple.py:399, font_size = min(72, height // 15); the font's size is the
\* size it was opened with
font_size(height) == Min(72, height \div 15)

\* variant of WrapFrom that leaves out the final append of current_line
RECURSIVE WrapFrom_no_flush(_, _, _, _, _, _)
WrapFrom_no_flush(words, k, lines, current_line, size, max_width) ==
    IF k > Len(words)
    THEN lines
    ELSE LET word      == words[k]
             appended  == Append(current_line, word)
             test_line == join(appended)
             line_width == (Len(test_line) * size) \div 2
         IN  IF line_width > max_width
             THEN IF Len(appended) = 1
                  THEN WrapFrom_no_flush(words, k + 1, Append(lines, word), << >>,
                                         size, max_width)
                  ELSE WrapFrom_no_flush(words, k + 1,
                                         Append(lines, join(current_line)),
                                         << word >>, size, max_width)
             ELSE WrapFrom_no_flush(words, k + 1, lines, appended, size, max_width)

\* the loop of wrap_text from word k on, and the final append (simple.py:451-466)
RECURSIVE WrapFrom(_, _, _, _, _, _)
WrapFrom(words, k, lines, current_line, size, max_width) ==
    IF k > Len(words)
    THEN IF current_line # << >> THEN Append(lines, join(current_line)) ELSE lines
    ELSE LET word      == words[k]
             appended  == Append(current_line, word)
             test_line == join(appended)
             line_width == (Len(test_line) * size) \div 2
         IN  IF line_width > max_width
             THEN IF Len(appended) = 1
                  THEN WrapFrom(words, k + 1, Append(lines, word), << >>,
                                size, max_width)
                  ELSE WrapFrom(words, k + 1, Append(lines, join(current_line)),
                                << word >>, size, max_width)
             ELSE WrapFrom(words, k + 1, lines, appended, size, max_width)

\* variant of wrap_text that puts all words on one line
wrap_text_one_line(text_, size, max_width) ==
    IF split(text_) = << >> THEN << >> ELSE << join(split(text_)) >>

\* TypingFrameGenerator.wrap_text
wrap_text(text_, size, max_width) ==
    WrapFrom(split(text_), 1, << >>, << >>, size, max_width)

\* simple.py:419 and :482, the reveal phase ends at progress 0.7 = 7/10
typing_num == 7
typing_den == 10

\* progress <= typing_duration, for progress = pnum / pden
InTyping(pnum, pden) == pnum * typing_den <= typing_num * pden

\* variant of chars_to_show_simple that counts down with progress
chars_to_show_simple_reversed(total_chars, pnum, pden) ==
    (total_chars * (pden - pnum) * typing_den) \div (typing_num * pden)

\* variant of chars_to_show_simple that leaves out the division by
\* typing_duration: int(total_chars * progress)
chars_to_show_simple_unscaled(total_chars, pnum, pden) ==
    (total_chars * pnum) \div pden

\* chars_to_show = int(total_chars * (progress / typing_duration))
chars_to_show_simple(total_chars, pnum, pden) ==
    (total_chars * pnum * typing_den) \div (typing_num * pden)

RECURSIVE ShowFrom(_, _, _, _, _)
ShowFrom(lines, k, shown_lines, chars_used, chars_to_show) ==
    IF k > Len(lines) THEN shown_lines
    ELSE IF chars_used >= chars_to_show
         THEN ShowFrom(lines, k + 1, Append(shown_lines, << >>), chars_used,
                       chars_to_show)
         ELSE LET remaining_chars == chars_to_show - chars_used
              IN  IF remaining_chars >= Len(lines[k])
                  THEN ShowFrom(lines, k + 1, Append(shown_lines, lines[k]),
                                chars_used + Len(lines[k]), chars_to_show)
                  ELSE ShowFrom(lines, k + 1,
                                Append(shown_lines, Prefix(lines[k], remaining_chars)),
                                chars_to_show, chars_to_show)

\* variant of apply_typing_effect that types all lines at once: every line
\* shows its first chars_to_show characters
apply_typing_effect_parallel(full_text, size, width_, pnum, pden) ==
    LET max_width == (width_ * 85) \div 100
        lines     == wrap_text(full_text, size, max_width)
        n         == chars_to_show_simple(SumLen(lines), pnum, pden)
    IN  IF InTyping(pnum, pden)
        THEN [k \in 1..Len(lines) |-> Prefix(lines[k], n)]
        ELSE lines

\* TypingFrameGenerator.apply_typing_effect, progress = pnum / pden
apply_typing_effect(full_text, size, width_, pnum, pden) ==
    LET max_width == (width_ * 85) \div 100
        lines     == wrap_text(full_text, size, max_width)
    IN  IF InTyping(pnum, pden)
        THEN ShowFrom(lines, 1, << >>, 0,
                      chars_to_show_simple(SumLen(lines), pnum, pden))
        ELSE lines

\* TypingFrameGenerator.draw_animated_text: the lines it draws, in order; a
\* line that is blank after strip() is skipped
RECURSIVE draw_animated_text(_)
draw_animated_text(lines) ==
    IF lines = << >> THEN << >>
    ELSE IF strip(Head(lines)) = << >> THEN draw_animated_text(Tail(lines))
    ELSE << Head(lines) >> \o draw_animated_text(Tail(lines))

\* the stored shapes of a run without a GeometricBackground (simple.py,
\* 254myth.py, teens.py:302-303)
NoShapes == [x |-> 0, y |-> 0, speed_x |-> 0, speed_y |-> 0,
             rotation |-> 0, rotation_speed |-> 0]

\* simple.py:206-211
background_types == {"geometric", "gradient", "abstract", "minimal"}

\* BackgroundGenerator.generate_background: the layer is named by the
\* generator that drew it, the time fraction frame_idx / total_frames it was
\* drawn for and the values random returned while drawing it: one for
\* abstract_background (simple.py:306-309), none for the others
generate_background(frame_idx_, total_frames_, bg_type, rnd) ==
    LET kind == IF bg_type \in background_types THEN bg_type ELSE "gradient"
    IN  [type |-> kind, num |-> frame_idx_, den |-> total_frames_,
         shapes |-> NoShapes,
         random |-> IF kind = "abstract" THEN << rnd >> ELSE << >>]

\* the values one call of the random module can return, 0..MaxRandom
MaxRandom == 1
RandomValues == 0..MaxRandom

\* the mode of Image.fromarray(a) for an array of the given number of
\* channels, and the number of channels of np.array(img)
fromarray(channels_) == IF channels_ = 4 THEN "RGBA" ELSE "RGB"
channels(mode) == IF mode = "RGBA" THEN 4 ELSE 3

\* img.convert(to) and Image.alpha_composite(im1, im2): the mode of the result
convert(mode, to) == to
alpha_composite(mode1, mode2) == "RGBA"

\* the backgrounds of simple.py are np.zeros((height, width, 3)) arrays
\* (simple.py:225, :258, :297, :325)
bg_channels == 3

\* TypingFrameGenerator.create_frame, progress = (frame_idx + 1) / total_frames
create_frame(text_, frame_idx_, total_frames_, width_, height_, bg_type, logo_, rnd) ==
    LET animated_text == apply_typing_effect(text_, font_size(height_), width_,
                                             frame_idx_ + 1, total_frames_)
    IN  [idx    |-> frame_idx_,
         bg     |-> generate_background(frame_idx_, total_frames_, bg_type, rnd),
         logo   |-> logo_,
         mode   |-> fromarray(bg_channels),
         size   |-> << width_, height_ >>,
         author |-> -1,
         shown  |-> animated_text,
         lines  |-> draw_animated_text(animated_text),
         chars  |-> SumLen(animated_text),
         reveal |-> InTyping(frame_idx_ + 1, total_frames_)]

(***************************************************************************)
(* teens.py                                                                *)
(***************************************************************************)
\* teens.py:288
W == 1080
H == 1920
\* teens.py:289
DURATION == 10
\* teens.py:290
FPS == 24
\* teens.py:473
reveal_time == 7

\* The width, in pixels, draw.textbbox measures for one character: the font
\* metrics are the imaging library's, a line of n characters measures
\* n * GlyphWidth.
GlyphWidth == 22

\* calculate_text_box_dimensions: box_width (teens.py:236-248)
text_box_width(quote_text) ==
    LET char_count == Len(quote_text)
        base_width == Min(800, Max(400, char_count * 10))
        margin_x   == 100
    IN  Min(base_width + margin_x, (W * 85) \div 100)

\* breath = 0.9 + 0.1 * sin(t * 3) lies in [0.8, 1.0]; in percent
BreathPct == {80, 90, 100}

\* teens.py:376 and :468, text_max_width for a breath of pct percent
text_max_width(quote_text, pct) == (text_box_width(quote_text) * pct) \div 100 - 80

RECURSIVE FitFrom(_, _, _, _, _)
FitFrom(words, k, lines, current_line, max_width) ==
    IF k > Len(words)
    THEN IF current_line # << >> THEN Append(lines, join(current_line)) ELSE lines
    ELSE LET word       == words[k]
             test_line  == join(Append(current_line, word))
             test_width == Len(test_line) * GlyphWidth
         IN  IF test_width <= max_width
             THEN FitFrom(words, k + 1, lines, Append(current_line, word), max_width)
             ELSE FitFrom(words, k + 1,
                          IF current_line # << >>
                          THEN Append(lines, join(current_line)) ELSE lines,
                          << word >>, max_width)

\* wrap_text_to_fit
wrap_text_to_fit(text_, max_width) == FitFrom(split(text_), 1, << >>, << >>, max_width)

\* variant of chars_to_show_teens with a reveal of 8 seconds
chars_to_show_teens_slow(total_chars, i) ==
    Min((i * total_chars) \div (FPS * (reveal_time + 1)), total_chars)

\* teens.py:474, chars_to_show at t = i / FPS:
\* min(int((t / reveal_time) * total_chars), total_chars)
chars_to_show_teens(total_chars, i) ==
    Min((i * total_chars) \div (FPS * reveal_time), total_chars)

\* teens.py:488-491, line idx is drawn when
\* line_alpha = max(0, min(255, int(255 * (t - idx * 0.3) * 1.5))) > 0,
\* with t = i / FPS: 255 * 1.5 * (10 i - 72 idx) / 240 >= 1
line_alpha(i, idx) ==
    Max(0, Min(255, (765 * (10 * i - 72 * idx)) \div 480))

RECURSIVE DrawnFrom(_, _, _)
DrawnFrom(lines, k, i) ==
    IF k > Len(lines) THEN << >>
    ELSE (IF line_alpha(i, k - 1) > 0 THEN << lines[k] >> ELSE << >>)
         \o DrawnFrom(lines, k + 1, i)

\* teens.py:486-522, the quote lines frame i draws
drawn_lines(lines, i) == DrawnFrom(lines, 1, i)

\* teens.py:538, the author line is drawn from t = 8 s
author_time == 8

\* variant of author_alpha that fades out
author_alpha_fading(i) ==
    Max(0, 255 - (765 * (i - FPS * author_time)) \div FPS)

\* teens.py:539, author_alpha = min(255, int(255 * (t - 8) * 3)) at
\* t = i / FPS
author_alpha(i) == Min(255, (765 * (i - FPS * author_time)) \div FPS)

\* teens.py:538-555: the opacity the author line is drawn with in frame i,
\* -1 when the frame draws no author line
author_layer(i) == IF i >= FPS * author_time THEN author_alpha(i) ELSE -1

\* GeometricBackground.generate_shapes: one circle and one triangle stand for
\* the 45 shapes.  Positions and speeds are in tenths of a pixel, rotations
\* in tenths of a degree.  The fields are drawn by the random module.
CircleSpeeds == {-3, 3}
RotationSpeeds == {-10, 5}
generate_shapes ==
    {[x |-> 0, y |-> 0, speed_x |-> sx, speed_y |-> 2,
      rotation |-> 0, rotation_speed |-> rs] :
        sx \in CircleSpeeds, rs \in RotationSpeeds}

\* GeometricBackground.update_shapes: the circle's position and the
\* triangle's rotation (teens.py:135-136, :141); the fields that follow
\* sin(t) and cos(t) are not modelled
update_shapes(sh) ==
    [sh EXCEPT !.x = (sh.x + sh.speed_x) % (W * 10),
               !.y = (sh.y + sh.speed_y) % (H * 10),
               !.rotation = (sh.rotation + sh.rotation_speed) % 3600]

\* teens.py:311-598, frame i of generate_quote_video: the image is created
\* in mode RGB (:317-319) and replaced at :397 by the composite with the
\* shadow layer, which is the array appended at :598; sh are the shapes after
\* background.draw, rnd the value random.random() returned for the floating
\* dots (teens.py:337-343), pct the breath of the text box
quote_frame(quote_text, i, style, sh, logo_, rnd, pct) ==
    LET total_chars  == Len(quote_text)
        chars        == chars_to_show_teens(total_chars, i)
        visible_text == Prefix(quote_text, chars)
        lines        == wrap_text_to_fit(visible_text, text_max_width(quote_text, pct))
    IN  [idx    |-> i,
         bg     |-> [type |-> style, num |-> i, den |-> DURATION * FPS,
                     shapes |-> sh,
                     random |-> IF style = "geometric" THEN << rnd >> ELSE << >>],
         logo   |-> logo_,
         mode   |-> alpha_composite(convert("RGB", "RGBA"), "RGBA"),
         size   |-> << W, H >>,
         author |-> author_layer(i),
         shown  |-> lines,
         lines  |-> drawn_lines(lines, i),
         chars  |-> chars,
         reveal |-> i < FPS * reveal_time]

(***************************************************************************)
(* State.                                                                  *)
(***************************************************************************)
VARIABLES
    app,          \* the script that runs: "simple", "teens", "myth", "pack" or "moon"
    text,         \* text_input / quote_text / message
    duration,     \* seconds
    width,        \* canvas width
    height,       \* canvas height
    bg_style,     \* background style; the animation in 254myth.py
    pc,           \* position of the user action
    frame_idx,    \* next frame index of the frame loop
    total_frames, \* duration * fps
    frames,       \* indices of the frames rendered and kept (teens.py frames)
    encoded,      \* indices of the frames handed to the video encoder, in order
    cur,          \* the frame rendered last
    logo,         \* the asset of the run: the logo, "fetched" or "placeholder";
                  \* in 254myth.py the poster, "poster" or "None"
    shapes,       \* GeometricBackground.shapes
    shapes0,      \* the shapes as generate_shapes drew them
    failed,       \* the renderer or the video writer raised an exception
    escaped,      \* an exception left the user action uncaught
    messages,     \* what the page showed: "warning", "error", "success"
    show_video,   \* the page offers a video (session_state.show_video, st.video)
    msgs,         \* 254myth.py Bulk Pack: messages[:5]
    anims,        \* 254myth.py Bulk Pack: anims[:5]
    video_files,  \* 254myth.py generate_video_pack: video_files
    yielded,      \* the progress value generate_typing_video yielded last, in
                  \* units of 1 / total_frames (so total_frames is 1.0); -1
                  \* before the first yield
    design_layer,     \* moonshine.py: st.session_state.design_layer
    search_results,   \* moonshine.py: st.session_state.search_results
    selected_graphic, \* moonshine.py: st.session_state.selected_graphic
    query,            \* moonshine.py: the Design Theme field in this run
    bg_url,           \* moonshine.py: the Background URL field in this run
    button,           \* moonshine.py: the button pressed in this run
    sent              \* moonshine.py: the API requests sent in this run

vars == << app, text, duration, width, height, bg_style, pc, frame_idx,
           total_frames, frames, encoded, cur, logo, shapes, shapes0, failed,
           escaped, messages, show_video, msgs, anims, video_files, yielded,
           design_layer, search_results, selected_graphic, query, bg_url,
           button, sent >>

inputs == << app, text, duration, width, height, bg_style >>

pack == << msgs, anims, video_files >>

studio == << design_layer, search_results, selected_graphic, query, bg_url,
             button, sent >>

NoFrame == [idx |-> -1,
            bg |-> [type |-> "none", num |-> 0, den |-> 1, shapes |-> NoShapes,
                    random |-> << >>],
            logo |-> "none", mode |-> "none", size |-> << 0, 0 >>,
            author |-> -1,
            shown |-> << >>, lines |-> << >>, chars |-> 0,
            reveal |-> TRUE]

\* a narrow canvas, on which the short texts wrap
NarrowWidth == 72

\* the requests a simple.py session is started with: every short text on the
\* narrow canvas, the default text on the 720x1280 canvas (simple.py:631)
\* under every background style, and the worked example
SimpleRequests ==
    {[text |-> t, duration |-> d, width |-> NarrowWidth, height |-> 1280,
      bg_style |-> "gradient"] : t \in ShortTexts, d \in 1..MaxDuration}
    \cup {[text |-> default_text, duration |-> d, width |-> 720, height |-> 1280,
           bg_style |-> s] : d \in 1..MaxDuration, s \in background_types}
    \cup {[text |-> HelloWorld, duration |-> DURATION, width |-> 720,
           height |-> 1280, bg_style |-> "gradient"]}

\* teens.py: every short text and the quote with the long word over the
\* minimal background, the worked example over both backgrounds
\* (teens.py:694-697)
TeensRequests ==
    {[text |-> t, bg_style |-> "minimal"] : t \in ShortTexts \cup {LongWordText}}
    \cup {[text |-> HelloWorld, bg_style |-> s] : s \in {"geometric", "minimal"}}

InitCommon ==
    /\ pc = "ui"
    /\ frame_idx = 0
    /\ total_frames = 0
    /\ frames = << >>
    /\ encoded = << >>
    /\ cur = NoFrame
    /\ logo = "none"
    /\ shapes = NoShapes
    /\ shapes0 = NoShapes
    /\ failed = FALSE
    /\ escaped = FALSE
    /\ messages = {}
    /\ show_video = FALSE
    /\ yielded = -1
    /\ design_layer = [background |-> "None", graphics |-> << >>,
                       texts |-> << >>, canvas_size |-> "1000x1000"]
    /\ search_results = << >>
    /\ selected_graphic = "None"
    /\ query = ""
    /\ bg_url = ""
    /\ button = "none"
    /\ sent = << >>

InitSimple ==
    /\ app = "simple"
    /\ \E r \in SimpleRequests :
          /\ text = r.text
          /\ duration = r.duration
          /\ width = r.width
          /\ height = r.height
          /\ bg_style = r.bg_style
    /\ msgs = << >>
    /\ anims = << >>
    /\ video_files = << >>
    /\ InitCommon

InitTeens ==
    /\ app = "teens"
    /\ \E r \in TeensRequests :
          /\ text = r.text
          /\ bg_style = r.bg_style
    /\ duration = DURATION
    /\ width = W
    /\ height = H
    /\ msgs = << >>
    /\ anims = << >>
    /\ video_files = << >>
    /\ InitCommon

(***************************************************************************)
(* simple.py: main and generate_typing_video.                              *)
(***************************************************************************)
\* what a remote server does with a request: it sends the asset, it sends
\* an error (or bytes that do not decode), or it never answers
Answers == {"ok", "error", "silent"}

\* simple.py:373, requests.get(logo_url) is given no timeout; 0 stands for
\* timeout=None
simple_logo_timeout == 0
\* teens.py:27
teens_logo_timeout == 10
\* 254myth.py:34
poster_timeout == 10

\* requests.get(url, timeout=timeout) against a server that gives answer:
\* what the caller gets.  A silent server raises Timeout after timeout
\* seconds; without a timeout the call never returns
request(timeout, answer) ==
    IF answer = "silent"
    THEN IF timeout > 0 THEN "error" ELSE "blocked"
    ELSE answer

\* variant of load_logo without the placeholder
load_logo_none(fetch_ok) == IF fetch_ok THEN "fetched" ELSE "None"

\* TypingFrameGenerator.load_logo: the fetched logo, or the placeholder drawn
\* when the request or the decoding raised
load_logo(fetch_ok) == IF fetch_ok THEN "fetched" ELSE "placeholder"

\* simple.py:641-652 and :512-517: the button is pressed; blank text is
\* refused with a warning, otherwise the generator is built (load_logo) and
\* the writer opened; a writer that fails to open is caught at :529; a logo
\* request that is never answered blocks the action at :514
SimpleGenerate ==
    /\ app = "simple" /\ pc = "ui"
    /\ IF strip(text) = << >>
       THEN /\ messages' = messages \cup {"warning"}
            /\ pc' = "done"
            /\ UNCHANGED << total_frames, logo, failed, yielded >>
       ELSE \E answer \in Answers, writer_ok \in BOOLEAN :
            LET got == request(simple_logo_timeout, answer)
            IN  /\ total_frames' = duration * fps
                /\ IF got = "blocked"
                   THEN /\ pc' = "blocked"
                        /\ UNCHANGED << logo, failed, messages, yielded >>
                   ELSE /\ logo' = load_logo(got = "ok")
                        /\ IF writer_ok
                           THEN /\ pc' = "loop"
                                /\ UNCHANGED << failed, messages, yielded >>
                           ELSE /\ failed' = TRUE
                                /\ messages' = messages \cup {"error"}
                                /\ yielded' = total_frames'
                                /\ pc' = "finish"
    /\ UNCHANGED << inputs, studio, pack, frame_idx, frames, encoded, cur, shapes, shapes0,
                    escaped, show_video >>

\* variant of simple_range that stops one frame early
simple_range_short(n) == 0..(n - 2)

\* the frame indices the loop of generate_typing_video visits,
\* range(total_frames)
simple_range(n) == 0..(n - 1)

\* variant of progress_yield that yields the fraction of the frames left
progress_yield_remaining(frame_idx_, total_frames_, last) ==
    IF frame_idx_ % 10 = 0 THEN total_frames_ - frame_idx_ ELSE last

\* simple.py:524-525, the value yielded after frame frame_idx_ in units of
\* 1 / total_frames: frame_idx / total_frames every tenth frame, otherwise
\* nothing is yielded and the last value stands
progress_yield(frame_idx_, total_frames_, last) ==
    IF frame_idx_ % 10 = 0 THEN frame_idx_ ELSE last

\* simple.py:518-531: one iteration; an exception of create_frame or
\* append_data is caught at :529, reported, and ends the generator normally
\* after a last yield of 1.0
SimpleFrame ==
    /\ app = "simple" /\ pc = "loop"
    /\ frame_idx \in simple_range(total_frames)
    /\ \E rnd \in RandomValues, ok \in BOOLEAN :
          LET frame == create_frame(text, frame_idx, total_frames, width, height,
                                    bg_style, logo, rnd)
          IN  /\ cur' = frame
              /\ IF ok
                 THEN /\ encoded' = Append(encoded, frame_idx)
                      /\ frame_idx' = frame_idx + 1
                      /\ yielded' = progress_yield(frame_idx, total_frames, yielded)
                      /\ UNCHANGED << pc, failed, messages >>
                 ELSE /\ failed' = TRUE
                      /\ messages' = messages \cup {"error"}
                      /\ yielded' = total_frames
                      /\ pc' = "finish"
                      /\ UNCHANGED << encoded, frame_idx >>
    /\ UNCHANGED << inputs, studio, pack, total_frames, frames, logo, shapes, shapes0, escaped,
                    show_video >>

\* simple.py:517 and :527: the range is exhausted, the writer closes and the
\* generator yields 1.0
SimpleLoopEnd ==
    /\ app = "simple" /\ pc = "loop"
    /\ frame_idx \notin simple_range(total_frames)
    /\ yielded' = total_frames
    /\ pc' = "finish"
    /\ UNCHANGED << inputs, studio, pack, frame_idx, total_frames, frames, encoded, cur, logo,
                    shapes, shapes0, failed, escaped, messages, show_video >>

\* simple.py:658-662: the generator is exhausted; main marks the video ready
SimpleFinish ==
    /\ app = "simple" /\ pc = "finish"
    /\ show_video' = TRUE
    /\ messages' = messages \cup {"success"}
    /\ pc' = "done"
    /\ UNCHANGED << inputs, studio, yielded, pack, frame_idx, total_frames, frames, encoded, cur, logo,
                    shapes, shapes0, failed, escaped >>

(***************************************************************************)
(* teens.py: main and generate_quote_video.                                *)
(***************************************************************************)
\* teens.py:881-913 and :285-309: the button is pressed; an empty quote
\* starts nothing, a quote of more than 800 characters is refused; otherwise
\* the logo is loaded (teens.py:22-37) and the background initialised
TeensGenerate ==
    /\ app = "teens" /\ pc = "ui"
    /\ IF text = << >>
       THEN /\ pc' = "done"
            /\ UNCHANGED << total_frames, logo, shapes, shapes0, messages >>
       ELSE IF Len(text) > 800
       THEN /\ messages' = messages \cup {"error"}
            /\ pc' = "done"
            /\ UNCHANGED << total_frames, logo, shapes, shapes0 >>
       ELSE \E answer \in Answers, sh \in generate_shapes :
            /\ total_frames' = DURATION * FPS
            /\ logo' = load_logo(request(teens_logo_timeout, answer) = "ok")
            /\ shapes' = IF bg_style = "geometric" THEN sh ELSE NoShapes
            /\ shapes0' = shapes'
            /\ pc' = "loop"
            /\ UNCHANGED messages
    /\ UNCHANGED << inputs, studio, yielded, pack, frame_idx, frames, encoded, cur, failed, escaped,
                    show_video >>

\* GeometricBackground.draw: update_shapes, then the shapes are drawn
draw(sh) == update_shapes(sh)

\* teens.py:311-598: one iteration of the frame loop
TeensFrame ==
    /\ app = "teens" /\ pc = "loop"
    /\ frame_idx < DURATION * FPS
    /\ \E rnd \in RandomValues, pct \in BreathPct :
          LET sh == IF bg_style = "geometric" THEN draw(shapes) ELSE shapes
          IN  /\ shapes' = sh
              /\ cur' = quote_frame(text, frame_idx, bg_style, sh, logo, rnd, pct)
    /\ frames' = Append(frames, frame_idx)
    /\ frame_idx' = frame_idx + 1
    /\ UNCHANGED << inputs, studio, yielded, pack, pc, total_frames, encoded, logo, shapes0, failed,
                    escaped, messages, show_video >>

\* teens.py:600-617: the frames are handed to the encoder; an exception of
\* write_videofile is caught neither here nor in main (teens.py:909)
TeensEncode ==
    /\ app = "teens" /\ pc = "loop"
    /\ frame_idx >= DURATION * FPS
    /\ \E ok \in BOOLEAN :
          IF Len(frames) > 0 /\ ~ok
          THEN /\ failed' = TRUE
               /\ escaped' = TRUE
               /\ pc' = "done"
               /\ UNCHANGED encoded
          ELSE /\ encoded' = IF Len(frames) > 0 THEN frames ELSE encoded
               /\ pc' = "show"
               /\ UNCHANGED << failed, escaped >>
    /\ UNCHANGED << inputs, studio, yielded, pack, frame_idx, total_frames, frames, cur, logo, shapes,
                    shapes0, messages, show_video >>

\* teens.py:915-926: a video path came back and the video is shown
TeensShow ==
    /\ app = "teens" /\ pc = "show"
    /\ IF Len(encoded) > 0
       THEN /\ messages' = messages \cup {"success"}
            /\ show_video' = TRUE
       ELSE UNCHANGED << messages, show_video >>
    /\ pc' = "done"
    /\ UNCHANGED << inputs, studio, yielded, pack, frame_idx, total_frames, frames, encoded, cur, logo,
                    shapes, shapes0, failed, escaped >>

(***************************************************************************)
(* 254myth.py: Video254Factory and the two tabs.                           *)
(***************************************************************************)
\* 254myth.py:42, the duration of a clip in seconds
clip_duration == 6
\* 254myth.py:100 and :150
clip_fps == 24

\* 254myth.py:135-138, the animations offered, in the order of the list
animation_names == << "slideup", "slideleft", "fadebounce", "typewriter", "pulse" >>

\* typewriter_effect.make_frame at t = k / clip_fps:
\* chars = int(txt_len * min(t / (duration * 0.7), 1))
typewriter_chars(txt_len, k) ==
    LET num == k * typing_den
        den == clip_fps * clip_duration * typing_num
    IN  IF num >= den THEN txt_len ELSE (txt_len * num) \div den

\* txt[:chars] + " " * max(0, txt_len - chars)
partial_text(txt, chars) ==
    Prefix(txt, chars) \o [n \in 1..Max(0, Len(txt) - chars) |-> " "]

\* a position of a clip: 'center' on an axis is the flag, otherwise the
\* coordinate in pixels
Position(xc, x_, yc, y_) == [x_center |-> xc, x |-> x_, y_center |-> yc, y |-> y_]

\* the position the branch of animate_text sets for the animation, at
\* t = k / clip_fps (254myth.py:56-59); the other branches leave the
\* position of a new TextClip, (0, 0)
branch_position(animation, k) ==
    IF animation = "slideup"
    THEN Position(TRUE, 0, FALSE, 500 + (800 * k) \div clip_fps)
    ELSE IF animation = "slideleft"
    THEN Position(FALSE, -400 + (500 * k) \div clip_fps, TRUE, 0)
    ELSE Position(FALSE, 0, FALSE, 0)

\* clip.set_position(pos): the position of the clip returned
set_position(old, pos) == pos

\* 254myth.py:67, return txt_clip.set_position(('center', 600)): the
\* position of the clip animate_text returns, at t = k / clip_fps
returned_position(animation, k) ==
    set_position(branch_position(animation, k), Position(TRUE, 0, FALSE, 600))

\* Video254Factory.animate_text and the composite over the poster: frame k
\* of the clip
clip_frame(message, animation, k) ==
    LET chars == IF animation = "typewriter"
                 THEN typewriter_chars(Len(message), k) ELSE Len(message)
        shown_text == IF animation = "typewriter"
                      THEN partial_text(message, chars) ELSE message
    IN  [idx    |-> k,
         bg     |-> [type |-> "poster", num |-> k, den |-> clip_fps * clip_duration,
                     shapes |-> NoShapes, random |-> << >>],
         logo   |-> "none",
         mode   |-> "RGB",
         size   |-> << 1080, 1920 >>,
         author |-> -1,
         position |-> returned_position(animation, k),
         shown  |-> << shown_text >>,
         lines  |-> << shown_text >>,
         chars  |-> chars,
         reveal |-> animation = "typewriter"
                    /\ k * typing_den < clip_fps * clip_duration * typing_num]

\* Quick Generate: every short text with the typewriter, the worked example
\* with every animation
MythRequests ==
    {[text |-> t, bg_style |-> "typewriter"] : t \in ShortTexts}
    \cup {[text |-> HelloWorld, bg_style |-> animation_names[n]] :
             n \in 1..Len(animation_names)}

\* Bulk Pack (254myth.py:173-186): the non-empty messages among the five
\* inputs and the animations selected; a message is named by its position
PackRequests ==
    {[msgs |-> [k \in 1..n |-> k], anims |-> SubSeq(animation_names, 1, m)] :
        n \in 0..5, m \in 0..Len(animation_names)}

InitMyth ==
    /\ app = "myth"
    /\ \E r \in MythRequests :
          /\ text = r.text
          /\ bg_style = r.bg_style
    /\ duration = clip_duration
    /\ width = 1080
    /\ height = 1920
    /\ msgs = << >>
    /\ anims = << >>
    /\ video_files = << >>
    /\ InitCommon

InitPack ==
    /\ app = "pack"
    /\ \E r \in PackRequests :
          /\ msgs = r.msgs
          /\ anims = r.anims
    /\ text = << >>
    /\ bg_style = "none"
    /\ duration = clip_duration
    /\ width = 1080
    /\ height = 1920
    /\ video_files = << >>
    /\ InitCommon

\* Video254Factory.load_poster: the poster clip, or None after the failure
\* was reported with st.error
load_poster(answer) ==
    IF request(poster_timeout, answer) = "ok" THEN "poster" ELSE "None"

\* 254myth.py:140-147: Generate Video is pressed; without a poster nothing
\* more happens
MythGenerate ==
    /\ app = "myth" /\ pc = "ui"
    /\ \E answer \in Answers :
          LET poster == load_poster(answer)
          IN  /\ logo' = poster
              /\ total_frames' = clip_duration * clip_fps
              /\ IF poster = "None"
                 THEN /\ messages' = messages \cup {"error"}
                      /\ pc' = "done"
                 ELSE /\ pc' = "loop"
                      /\ UNCHANGED messages
    /\ UNCHANGED << inputs, studio, yielded, frame_idx, frames, encoded, cur, shapes, shapes0,
                    failed, escaped, show_video, msgs, anims, video_files >>

\* 254myth.py:150: write_videofile renders and encodes frame k; an exception
\* of the writer is not caught
MythFrame ==
    /\ app = "myth" /\ pc = "loop"
    /\ frame_idx < total_frames
    /\ \E ok \in BOOLEAN :
          /\ cur' = clip_frame(text, bg_style, frame_idx)
          /\ IF ok
             THEN /\ encoded' = Append(encoded, frame_idx)
                  /\ frame_idx' = frame_idx + 1
                  /\ UNCHANGED << pc, failed, escaped >>
             ELSE /\ failed' = TRUE
                  /\ escaped' = TRUE
                  /\ pc' = "done"
                  /\ UNCHANGED << encoded, frame_idx >>
    /\ UNCHANGED << inputs, studio, yielded, total_frames, frames, logo, shapes, shapes0, messages,
                    show_video, msgs, anims, video_files >>

\* 254myth.py:153-159: the file is written and shown
MythShow ==
    /\ app = "myth" /\ pc = "loop"
    /\ frame_idx >= total_frames
    /\ messages' = messages \cup {"success"}
    /\ show_video' = TRUE
    /\ pc' = "done"
    /\ UNCHANGED << inputs, studio, yielded, frame_idx, total_frames, frames, encoded, cur, logo,
                    shapes, shapes0, failed, escaped, msgs, anims, video_files >>

\* zip(messages, animations): the number of pairs
zip_len(ms, as) == Min(Len(ms), Len(as))

\* 254myth.py:183-186 and :81-87: Generate 5-Video Pack is pressed with at
\* least three messages; generate_video_pack returns None without a poster
PackGenerate ==
    /\ app = "pack" /\ pc = "ui"
    /\ IF Len(msgs) >= 3
       THEN \E answer \in Answers :
            LET poster == load_poster(answer)
            IN  /\ logo' = poster
                /\ IF poster = "None"
                   THEN /\ messages' = messages \cup {"error"}
                        /\ pc' = "done"
                   ELSE /\ pc' = "loop"
                        /\ UNCHANGED messages
       ELSE /\ pc' = "done"
            /\ UNCHANGED << messages, logo >>
    /\ UNCHANGED << inputs, studio, yielded, frame_idx, total_frames, frames, encoded, cur, shapes,
                    shapes0, failed, escaped, show_video, msgs, anims, video_files >>

\* 254myth.py:89-111: one iteration of the loop of generate_video_pack, the
\* video of pair frame_idx + 1; an exception of write_videofile is not caught
PackVideo ==
    /\ app = "pack" /\ pc = "loop"
    /\ frame_idx < zip_len(msgs, anims)
    /\ \E ok \in BOOLEAN :
          IF ok
          THEN /\ video_files' = Append(video_files, frame_idx + 1)
               /\ frame_idx' = frame_idx + 1
               /\ show_video' = (show_video \/ frame_idx = 0)
               /\ UNCHANGED << pc, failed, escaped >>
          ELSE /\ failed' = TRUE
               /\ escaped' = TRUE
               /\ pc' = "done"
               /\ UNCHANGED << video_files, frame_idx, show_video >>
    /\ UNCHANGED << inputs, studio, yielded, total_frames, frames, encoded, cur, logo, shapes,
                    shapes0, messages, msgs, anims >>

\* 254myth.py:113 and :188-200: the list is returned; a non-empty list is
\* zipped and announced
PackDone ==
    /\ app = "pack" /\ pc = "loop"
    /\ frame_idx >= zip_len(msgs, anims)
    /\ messages' = IF Len(video_files) > 0 THEN messages \cup {"success"} ELSE messages
    /\ pc' = "done"
    /\ UNCHANGED << inputs, studio, yielded, frame_idx, total_frames, frames, encoded, cur, logo,
                    shapes, shapes0, failed, escaped, show_video, msgs, anims,
                    video_files >>

(***************************************************************************)
(* moonshine.py: the design studio.  The script runs from top to bottom    *)
(* once for every interaction of the user; st.session_state survives from  *)
(* one run to the next.                                                    *)
(***************************************************************************)
\* Python's None
None == "None"

\* bool(v) of a string or of None
truthy(v) == v \notin {None, ""}

\* the assets the search API can return; a name stands for the dict
\* {"thumb": ..., "title": ..., "img": ...} of the asset
AssetLists == {<< >>, << "a1" >>, << "a1", "a2" >>}

\* asset["img"]
asset_img(asset) == << asset, "img" >>

\* what the user can have typed into Design Theme (moonshine.py:78)
Queries == {"", "wildlife"}

\* what the user can have typed into Background URL (moonshine.py:154)
BackgroundURLs == {"", "u1", "u2"}

\* what the user can have typed into Text 1 (moonshine.py:165)
Captions == {"", "DESIGNER SERIES"}

\* the buttons of the page; at most one is pressed in a run
Buttons == {"none", "search", "generate", "reset", "mockup", "export"}

\* moonshine.py:16-22, the design_layer of a new session
initial_design_layer ==
    [background |-> None, graphics |-> << >>, texts |-> << >>,
     canvas_size |-> "1000x1000"]

\* moonshine.py:368
health_timeout == 3
\* moonshine.py:96
search_timeout == 10
\* moonshine.py:137-140, requests.get is given no timeout
auto_color_timeout == 0
\* moonshine.py:195
render_timeout == 30
\* moonshine.py:252
mockup_timeout == 30
\* moonshine.py:319
print_timeout == 45

\* a request as the API sees it
api_request(endpoint, timeout, json) ==
    [endpoint |-> endpoint, timeout |-> timeout, json |-> json]

\* moonshine.py:368, the health check of main; its answer only chooses the
\* status line of the sidebar
health_check == api_request("/api/health", health_timeout, << >>)

\* variant of reset_design that clears the background only
reset_design_background(design_layer_, selected_graphic_) ==
    [design_layer |-> [design_layer_ EXCEPT !.background = None],
     selected_graphic |-> None]

\* moonshine.py:58-66 reset_design: the two session entries it assigns
reset_design(design_layer_, selected_graphic_) ==
    [design_layer |-> [background |-> None, graphics |-> << >>,
                       texts |-> << >>, canvas_size |-> "1000x1000"],
     selected_graphic |-> None]

\* variant of the gate that lets every session through
gate_open(selected_graphic_) == FALSE

\* moonshine.py:128, :219, :283: `if not st.session_state.selected_graphic`
gate(selected_graphic_) == ~truthy(selected_graphic_)

\* moonshine.py:161-180 with one text element: the list texts
text_elements(txt) ==
    IF truthy(txt)
    THEN << [text |-> txt, size |-> 80, x |-> 500, y |-> 600,
             color |-> "#000000", font_url |-> None] >>
    ELSE << >>

\* moonshine.py:188-193, the payload of Generate Real Image
render_payload(design_layer_) ==
    [background_url |-> design_layer_.background,
     overlay_urls |-> design_layer_.graphics,
     text_elements |-> design_layer_.texts,
     final_size |-> "1200x1200"]

\* moonshine.py:312-317, the payload of GENERATE PRINT FILE
print_payload(design_layer_) ==
    [background_url |-> None,
     overlay_urls |-> design_layer_.graphics,
     text_elements |-> design_layer_.texts,
     final_size |-> "3000x3000"]

\* moonshine.py:236-240, the design a mockup is made of
design_url(design_layer_, selected_graphic_) ==
    IF "rendered" \in DOMAIN design_layer_
    THEN << "data:image/png;base64", design_layer_.rendered >>
    ELSE asset_img(selected_graphic_)

\* moonshine.py:246-251
mockup_payload(design_layer_, selected_graphic_) ==
    [design_url |-> design_url(design_layer_, selected_graphic_),
     product_type |-> "t-shirt", color |-> "#FFFFFF",
     image_size |-> "1200x1200"]

InitMoon ==
    /\ app = "moon"
    /\ text = << >>
    /\ bg_style = "none"
    /\ duration = 0
    /\ width = 1000
    /\ height = 1000
    /\ msgs = << >>
    /\ anims = << >>
    /\ video_files = << >>
    /\ InitCommon

\* an interaction of the user starts a run of the script: a text field was
\* edited or a button pressed.  The widgets of a gated tab exist only when
\* a graphic is selected.  moonshine.py:361-374: main checks the API
MoonMain ==
    /\ app = "moon" /\ pc = "ui"
    /\ \E q \in Queries, b \in BackgroundURLs, pressed \in Buttons :
          /\ gate(selected_graphic) => (b = "" /\ pressed \in {"none", "search"})
          /\ query' = q
          /\ bg_url' = b
          /\ button' = pressed
    /\ messages' = {}
    /\ sent' = << health_check >>
    /\ escaped' = FALSE
    /\ pc' = "search"
    /\ UNCHANGED << inputs, yielded, pack, frame_idx, total_frames, frames, encoded, cur,
                    logo, shapes, shapes0, failed, show_video, design_layer,
                    search_results, selected_graphic >>

\* moonshine.py:72-122 search_tab: a query is searched for, failures are
\* reported; the gallery is shown for the results in the session and the
\* graphic image_select returns is selected
MoonSearch ==
    /\ app = "moon" /\ pc = "search"
    /\ \E answer \in Answers, assets \in AssetLists :
          LET searching == (button = "search" \/ truthy(query)) /\ truthy(query)
              got == request(search_timeout, answer)
              results == IF searching /\ got = "ok" THEN assets ELSE search_results
          IN  /\ search_results' = results
              /\ sent' = IF searching
                         THEN Append(sent, api_request("/api/search", search_timeout,
                                                       [q |-> query]))
                         ELSE sent
              /\ messages' = IF searching
                             THEN messages \cup {IF got = "ok" THEN "success" ELSE "error"}
                             ELSE messages
              /\ IF results # << >>
                 THEN \/ UNCHANGED << selected_graphic, design_layer >>
                      \/ \E selected_idx \in 0..(Len(results) - 1) :
                            /\ selected_graphic' = results[selected_idx + 1]
                            /\ design_layer' =
                                  [design_layer EXCEPT !.graphics =
                                      << asset_img(results[selected_idx + 1]) >>]
                 ELSE UNCHANGED << selected_graphic, design_layer >>
    /\ pc' = "studio"
    /\ UNCHANGED << inputs, yielded, pack, frame_idx, total_frames, frames, encoded, cur,
                    logo, shapes, shapes0, failed, escaped, show_video, query, bg_url,
                    button >>

\* moonshine.py:132-213, studio_tab behind its gate, for the answers of the
\* API to the request of :137 and of :195 and the text typed into Text 1:
\* the session entries, the requests sent, the messages shown and how the
\* function is left ("returned", "rerun", "raised" or "blocked")
studio_controls(layer_, graphic_, bg_url_, button_, sent_, messages_, answer1, txt, answer2) ==
    LET fetching == ~truthy(layer_.background)
        got1 == IF fetching THEN request(auto_color_timeout, answer1) ELSE "ok"
        sent1 == IF fetching
                 THEN Append(sent_, api_request("/api/search", auto_color_timeout,
                                                [q |-> "fabric texture"]))
                 ELSE sent_
        unchanged(exit) == [design_layer |-> layer_,
                            selected_graphic |-> graphic_,
                            sent |-> sent1, messages |-> messages_, exit |-> exit]
        layer1 == IF truthy(bg_url_)
                  THEN [layer_ EXCEPT !.background = bg_url_]
                  ELSE layer_
        layer2 == [layer1 EXCEPT !.texts = text_elements(txt)]
        generating == button_ = "generate"
        got2 == request(render_timeout, answer2)
        layer3 == IF generating /\ got2 = "ok"
                  THEN [rendered |-> "png"] @@ layer2
                  ELSE layer2
        sent2 == IF generating
                 THEN Append(sent1, api_request("/api/combine-design", render_timeout,
                                                render_payload(layer2)))
                 ELSE sent1
        messages2 == IF generating /\ got2 # "ok"
                     THEN messages_ \cup {"error"}
                     ELSE messages_
        reset == reset_design(layer3, graphic_)
    IN  CASE got1 = "blocked" -> unchanged("blocked")
          [] got1 = "error" -> unchanged("raised")
          [] got1 = "ok" /\ ~truthy(graphic_) -> unchanged("raised")
          [] got1 = "ok" /\ truthy(graphic_) /\ button_ = "reset" ->
                [design_layer |-> reset.design_layer,
                 selected_graphic |-> reset.selected_graphic,
                 sent |-> sent2, messages |-> messages2, exit |-> "rerun"]
          [] OTHER ->
                [design_layer |-> layer3, selected_graphic |-> graphic_,
                 sent |-> sent2, messages |-> messages2, exit |-> "returned"]

\* moonshine.py:124-213 studio_tab: without a selected graphic a warning;
\* otherwise the preview, the controls, Generate Real Image and Reset
\* Design.  An exception of :137-146 is not caught and ends the run
MoonStudio ==
    /\ app = "moon" /\ pc = "studio"
    /\ IF gate(selected_graphic)
       THEN /\ messages' = messages \cup {"warning"}
            /\ pc' = "mockup"
            /\ UNCHANGED << design_layer, selected_graphic, sent, escaped >>
       ELSE \E answer1 \in Answers, txt \in Captions, answer2 \in Answers :
               LET r == studio_controls(design_layer, selected_graphic, bg_url,
                                        button, sent, messages, answer1, txt,
                                        answer2)
               IN  /\ design_layer' = r.design_layer
                   /\ selected_graphic' = r.selected_graphic
                   /\ sent' = r.sent
                   /\ messages' = r.messages
                   /\ escaped' = (r.exit = "raised")
                   /\ pc' = CASE r.exit = "returned" -> "mockup"
                              [] r.exit = "rerun" -> "rerun"
                              [] r.exit = "raised" -> "ui"
                              [] OTHER -> "blocked"
    /\ UNCHANGED << inputs, yielded, pack, frame_idx, total_frames, frames, encoded, cur,
                    logo, shapes, shapes0, failed, show_video, search_results, query,
                    bg_url, button >>

\* moonshine.py:213 st.rerun(): the run is abandoned and the script starts
\* again, with no button pressed
MoonRerun ==
    /\ app = "moon" /\ pc = "rerun"
    /\ messages' = {}
    /\ button' = "none"
    /\ sent' = << health_check >>
    /\ pc' = "search"
    /\ UNCHANGED << inputs, yielded, pack, frame_idx, total_frames, frames, encoded, cur,
                    logo, shapes, shapes0, failed, escaped, show_video, design_layer,
                    search_results, selected_graphic, query, bg_url >>

\* moonshine.py:215-277 mockup_tab: without a selected graphic a warning;
\* Generate Mockup posts the design, failures are reported
MoonMockup ==
    /\ app = "moon" /\ pc = "mockup"
    /\ IF gate(selected_graphic)
       THEN /\ messages' = messages \cup {"warning"}
            /\ UNCHANGED sent
       ELSE IF button = "mockup"
            THEN \E answer \in Answers :
                    /\ sent' = Append(sent,
                                  api_request("/api/generate-mockup", mockup_timeout,
                                      mockup_payload(design_layer, selected_graphic)))
                    /\ messages' = IF request(mockup_timeout, answer) = "ok"
                                   THEN messages
                                   ELSE messages \cup {"error"}
            ELSE UNCHANGED << sent, messages >>
    /\ pc' = "export"
    /\ UNCHANGED << inputs, yielded, pack, frame_idx, total_frames, frames, encoded, cur,
                    logo, shapes, shapes0, failed, escaped, show_video, design_layer,
                    search_results, selected_graphic, query, bg_url, button >>

\* moonshine.py:279-355 export_tab: without a selected graphic a warning;
\* GENERATE PRINT FILE posts the layers, failures are reported.  The run of
\* the script ends (moonshine.py:389-395)
MoonExport ==
    /\ app = "moon" /\ pc = "export"
    /\ IF gate(selected_graphic)
       THEN /\ messages' = messages \cup {"warning"}
            /\ UNCHANGED sent
       ELSE IF button = "export"
            THEN \E answer \in Answers :
                    /\ sent' = Append(sent,
                                  api_request("/api/combine-design", print_timeout,
                                              print_payload(design_layer)))
                    /\ messages' = IF request(print_timeout, answer) = "ok"
                                   THEN messages
                                   ELSE messages \cup {"error"}
            ELSE UNCHANGED << sent, messages >>
    /\ pc' = "ui"
    /\ UNCHANGED << inputs, yielded, pack, frame_idx, total_frames, frames, encoded, cur,
                    logo, shapes, shapes0, failed, escaped, show_video, design_layer,
                    search_results, selected_graphic, query, bg_url, button >>

Init == InitSimple \/ InitTeens \/ InitMyth \/ InitPack \/ InitMoon

Next ==
    \/ MythGenerate
    \/ MythFrame
    \/ MythShow
    \/ PackGenerate
    \/ PackVideo
    \/ PackDone
    \/ SimpleGenerate
    \/ SimpleFrame
    \/ SimpleLoopEnd
    \/ SimpleFinish
    \/ TeensGenerate
    \/ TeensFrame
    \/ TeensEncode
    \/ TeensShow
    \/ MoonMain
    \/ MoonSearch
    \/ MoonStudio
    \/ MoonRerun
    \/ MoonMockup
    \/ MoonExport

Spec == Init /\ [][Next]_vars

(***************************************************************************)
(* Properties of the frame sequence.                                       *)
(***************************************************************************)
\* s lists the frame indices 0, 1, 2, ... in increasing order
IsRange(s) == \A k \in 1..Len(s) : s[k] = k - 1

\* the frame loop of simple.py or teens.py was started
LoopStarted ==
    app \in {"simple", "teens"} /\ total_frames > 0 /\ pc # "blocked"

\* a started run of simple.py or teens.py ended and nothing raised
Completed == LoopStarted /\ pc = "done" /\ ~failed

\* text has no character other than whitespace
Blank(s) == \A k \in 1..Len(s) : s[k] = " "

\* C1: a generation run of simple.py (any duration, 24 fps) or teens.py
\* (10 s, 24 fps) hands the encoder one frame per frame index
\* 0 .. duration * fps - 1, in increasing order: at every moment the encoder
\* holds an initial segment of the indices, and a run in which nothing raised
\* ends with exactly duration * fps frames.
C1_FrameCount ==
    app \in {"simple", "teens"} =>
        /\ IsRange(encoded)
        /\ Len(encoded) <= duration * fps
        /\ Completed => Len(encoded) = duration * fps

C1_Witness ==
    /\ app = "simple" /\ Completed /\ duration > 1
    /\ Len(encoded) = duration * fps
    /\ encoded[Len(encoded)] = duration * fps - 1

\* C2: during the reveal phase the number of characters shown never
\* decreases from one frame to the next (simple.py apply_typing_effect,
\* teens.py chars_to_show, 254myth.py typewriter_effect).
C2_RevealMonotone ==
    [][(cur.idx >= 0 /\ cur'.idx = cur.idx + 1 /\ cur.reveal /\ cur'.reveal)
          => cur'.chars >= cur.chars]_vars

C2_Witness ==
    /\ app = "simple" /\ cur.reveal /\ cur.idx > 0
    /\ cur.chars > 1 /\ cur.chars < Len(text)

\* the frame rendered last is the first frame of the hold phase: in
\* simple.py the first frame whose progress (idx + 1) / total_frames exceeds
\* 0.7, in teens.py the frame at t = reveal_time
FirstHold ==
    \/ /\ app = "simple" /\ cur.idx >= 0
       /\ ~InTyping(cur.idx + 1, total_frames)
       /\ (cur.idx = 0 \/ InTyping(cur.idx, total_frames))
    \/ /\ app = "teens" /\ cur.idx = FPS * reveal_time

\* ' '.join(text.split()): text with every run of whitespace collapsed to
\* one space and no whitespace at its ends
Normalised(s) == join(split(s))

\* C3 as stated: at the first frame of the hold phase the visible text
\* equals the full input text, character for character.
C3_ExactText == FirstHold => join(cur.lines) = text

\* C3: at the first frame of the hold phase the lines laid out, joined by
\* single spaces, are the input text with its whitespace normalised (so the
\* input itself when it is already normalised); in teens.py the number of
\* characters revealed is the length of the quote, and all lines are drawn
\* when there are at most 24 of them.
C3_FullTextAtHold ==
    FirstHold =>
        /\ join(cur.shown) = Normalised(text)
        /\ text = Normalised(text) => join(cur.shown) = text
        /\ app = "simple" => cur.lines = cur.shown
        /\ app = "teens" =>
              /\ cur.chars = Len(text)
              /\ Len(cur.shown) <= 24 => cur.lines = cur.shown

C3_Witness ==
    /\ FirstHold /\ app = "teens" /\ text = HelloWorld
    /\ cur.lines = << HelloWorld >>

\* C4 as stated: with an empty text, generation produces frames for the
\* whole duration, each with an empty text layer.
C4_EmptyTextFrames ==
    (app \in {"simple", "teens"} /\ text = << >> /\ pc = "done" /\ ~failed)
        => (Len(encoded) = duration * fps /\ cur.lines = << >>)

\* C4: simple.py refuses a text that is empty or only whitespace with a
\* warning and renders nothing; teens.py starts nothing for an empty quote;
\* for a quote of whitespace only teens.py renders the whole duration and
\* no frame draws a quote line.
C4_BlankText ==
    /\ (app = "simple" /\ Blank(text)) =>
          /\ total_frames = 0 /\ encoded = << >> /\ cur = NoFrame
          /\ ~show_video
          /\ pc = "done" => "warning" \in messages
    /\ (app = "teens" /\ text = << >>) =>
          /\ total_frames = 0 /\ frames = << >> /\ encoded = << >>
          /\ cur = NoFrame /\ ~show_video
    /\ (app = "teens" /\ Blank(text) /\ text # << >>) =>
          /\ cur.lines = << >>
          /\ Completed => Len(encoded) = DURATION * FPS

C4_Witness ==
    /\ app = "simple" /\ text = << " ", " " >> /\ pc = "done"
    /\ "warning" \in messages /\ encoded = << >>

FreshBackground ==
    IF app = "teens"
    THEN [type |-> bg_style, num |-> cur.idx, den |-> DURATION * FPS,
          shapes |-> IF bg_style = "geometric" THEN draw(shapes0) ELSE NoShapes,
          random |-> << >>]
    ELSE [generate_background(cur.idx, total_frames, bg_style, 0)
             EXCEPT !.random = << >>]

\* C6 as stated: the content of frame i depends only on i / total_frames
\* and the static inputs; rendering it gives the same result whether or not
\* the frames before it were rendered; no per-frame random draw and no
\* accumulated position.
C6_FrameIsFunctionOfIndex ==
    (app \in {"simple", "teens"} /\ cur.idx >= 0) => cur.bg = FreshBackground

\* C7 as stated: drawing the background of a frame leaves every stored
\* field of the generator unchanged.
C7_BackgroundDrawIsPure ==
    [][(app \in {"simple", "teens"} /\ cur'.idx # cur.idx) => shapes' = shapes]_vars

\* sum of the lengths of the wrapped lines of the text, the total_chars of
\* apply_typing_effect
WrappedChars ==
    SumLen(wrap_text(text, font_size(height), (width * 85) \div 100))

\* |a - b|
Dist(a, b) == IF a < b THEN b - a ELSE a - b

\* C8 as stated: for a text of N characters the count shown at frame i is
\* within 1 of N * min(i / (0.7 * T), 1).
C8_LinearInFrameIndex ==
    (app \in {"simple", "teens"} /\ cur.idx >= 0) =>
        Dist(cur.chars * typing_num * total_frames,
             Len(text) * Min(typing_den * cur.idx, typing_num * total_frames))
            <= typing_num * total_frames

\* C8: in teens.py the count shown at frame i is within 1 of
\* N * min(i / 168, 1), N the length of the quote; in simple.py it is within
\* 1 of N' * min((i + 1) / (0.7 * T), 1), N' the total length of the wrapped
\* lines.  For "HELLO WORLD", 10 s and 24 fps the reveal phase is the frames
\* 0..167 and every frame 168..239 shows all 11 characters.
C8_LinearReveal ==
    /\ (app = "teens" /\ cur.idx >= 0) =>
          Dist(cur.chars * FPS * reveal_time,
               Len(text) * Min(cur.idx, FPS * reveal_time))
              <= FPS * reveal_time
    /\ (app = "simple" /\ cur.idx >= 0) =>
          Dist(cur.chars * typing_num * total_frames,
               WrappedChars * Min(typing_den * (cur.idx + 1),
                                  typing_num * total_frames))
              <= typing_num * total_frames
    /\ (app \in {"simple", "teens"} /\ text = HelloWorld /\ cur.idx >= 0) =>
          /\ total_frames = 240
          /\ cur.reveal <=> cur.idx < 168
          /\ cur.idx >= 168 => (cur.chars = 11 /\ cur.lines = << HelloWorld >>)

C8_Witness ==
    /\ app = "simple" /\ text = HelloWorld /\ cur.idx = 168
    /\ cur.chars = 11 /\ ~cur.reveal

\* C9 as stated: a started frame loop renders and encodes all
\* duration * fps frames or raises to its caller; it never stops early and
\* returns normally.
C9_CompleteOrRaise ==
    (LoopStarted /\ cur.idx >= 0 /\ pc \in {"finish", "show", "done"} /\ ~escaped)
        => Len(encoded) = total_frames

\* C10 as stated: every fetch, decode or encoding failure is caught where it
\* happens and reported; none leaves the user action as an exception.
C10_NoFailureEscapes == failed => ("error" \in messages /\ ~escaped)

\* C11 as stated: every request for a background or an asset has a timeout,
\* so no user action waits for ever on a server that never answers.
C11_FetchesTerminate == pc # "blocked"

\* C12 as stated: every frame handed to the encoder is an RGB raster
\* (3 channels) of exactly the requested canvas width x height.
C12_FramesAreRGB ==
    (app \in {"simple", "teens"} /\ cur.idx >= 0) =>
        /\ cur.mode = "RGB" /\ channels(cur.mode) = 3
        /\ cur.size = << width, height >>

\* the width wrap_text estimates for a line (simple.py:454)
estimated_width(line, size) == (Len(line) * size) \div 2

\* the width draw.textbbox measures for a line in teens.py
measured_width(line) == Len(line) * GlyphWidth

\* the line is one word
IsWord(line) == line # << >> /\ \A k \in 1..Len(line) : line[k] # " "

\* the lines wrap_text returns for the text of the run, and its max_width
SimpleMaxWidth == (width * 85) \div 100
SimpleLines == wrap_text(text, font_size(height), SimpleMaxWidth)

C14_AuthorInHoldPhase ==
    [][(app = "teens" /\ cur'.idx >= 0) =>
          /\ cur'.author >= 0 =>
                (cur'.chars = Len(text) /\ ~cur'.reveal
                 /\ cur'.idx >= FPS * author_time)
          /\ cur'.chars < Len(text) => cur'.author = -1
          /\ (cur.author >= 0 /\ cur'.idx = cur.idx + 1) =>
                cur'.author >= cur.author
          /\ cur'.idx = DURATION * FPS - 1 => cur'.author = 255]_vars

C14_Witness ==
    /\ app = "teens" /\ cur.idx > FPS * author_time
    /\ cur.author > 0 /\ cur.author < 255
    /\ cur.chars = Len(text)

\* C15 as stated: simple.py main shows the success message and marks the
\* video available (show_video) only when generate_typing_video has
\* written all duration * 24 frames; a generation that failed part-way
\* never leaves the session in the video-ready state.
C15_ReadyOnlyWhenComplete ==
    (app = "simple" /\ (show_video \/ "success" \in messages)) =>
        (Len(encoded) = duration * fps /\ ~failed)

C17_WrapPreservesWords ==
    /\ (app = "simple" /\ cur.idx >= 0 /\ ~cur.reveal) =>
          /\ cur.shown = SimpleLines
          /\ split(join(cur.shown)) = split(text)
          /\ \A k \in 1..Len(cur.shown) : cur.shown[k] # << >>
    /\ (app = "teens" /\ cur.idx >= 0) =>
          /\ split(join(cur.shown)) = split(Prefix(text, cur.chars))
          /\ \A k \in 1..Len(cur.shown) : cur.shown[k] # << >>

C17_Witness ==
    /\ app = "simple" /\ cur.idx >= 0 /\ ~cur.reveal /\ text = default_text
    /\ Len(cur.shown) > 2
    /\ Len(split(join(cur.shown))) = 14

\* C18: the progress values generate_typing_video yields never decrease,
\* each lies in [0, 1], and the last one is 1.0, when generation completes
\* and when it fails at any frame or at opening the writer.
C18_ProgressYields ==
    [][app = "simple" =>
          /\ yielded' >= yielded
          /\ yielded' # -1 => (0 <= yielded' /\ yielded' <= total_frames')
          /\ pc' \in {"finish", "done"} /\ total_frames' > 0 =>
                yielded' = total_frames']_vars

C18_Witness ==
    /\ app = "simple" /\ pc = "done" /\ failed
    /\ Len(encoded) > 10 /\ Len(encoded) < total_frames
    /\ yielded = total_frames

\* C19 as stated: when the poster loads, generate_video_pack produces one
\* video per supplied message, in message order (254_video_k.mp4 for the
\* k-th message), so the returned list is as long as the message list.
C19_OneVideoPerMessage ==
    (app = "pack" /\ pc = "done" /\ logo = "poster" /\ ~failed) =>
        video_files = [k \in 1..Len(msgs) |-> k]

\* C20 as stated: for 'slideup' and 'slideleft' the position of the clip
\* animate_text returns is the time-dependent position set in the branch
\* of the animation, not a fixed point.
C20_SlidePosition ==
    (app = "myth" /\ cur.idx >= 0 /\ bg_style \in {"slideup", "slideleft"}) =>
        cur.position = branch_position(bg_style, cur.idx)

(***************************************************************************)
(* Properties of the design studio.                                        *)
(***************************************************************************)
\* the entries of st.session_state
session == << design_layer, search_results, selected_graphic >>

\* C21: in moonshine.py, while selected_graphic is None, a run of
\* studio_tab, mockup_tab or export_tab shows the warning and nothing else:
\* it sends no API request, changes no entry of the session state and
\* raises nothing.
C21_GatedTabs ==
    [][(app = "moon" /\ pc \in {"studio", "mockup", "export"}
          /\ selected_graphic = None)
          => /\ session' = session
             /\ sent' = sent
             /\ messages' = messages \cup {"warning"}
             /\ ~escaped']_vars

\* the end of a run in which all three tabs were gated: the page shows the
\* warning, only the health check of main was sent and the session is as it
\* was created
C21_Witness ==
    /\ app = "moon" /\ pc = "ui" /\ selected_graphic = None
    /\ "warning" \in messages
    /\ sent = << health_check >>
    /\ design_layer = initial_design_layer

\* C22: reset_design of moonshine.py (the Reset Design button of
\* studio_tab) leaves design_layer equal to the value a new session starts
\* with (background None, graphics [], texts [], canvas_size "1000x1000"),
\* without a "rendered" entry, and selected_graphic None; search_results is
\* not changed.
C22_ResetDesign ==
    [][(app = "moon" /\ pc = "studio" /\ pc' = "rerun")
          => /\ design_layer' = initial_design_layer
             /\ "rendered" \notin DOMAIN design_layer'
             /\ selected_graphic' = None
             /\ search_results' = search_results]_vars

\* Reset Design was pressed in a run that had stored the URL of the
\* Background URL field: the layers are the initial ones, the search
\* results are still there
C22_Witness ==
    /\ app = "moon" /\ pc = "rerun" /\ bg_url = "u1"
    /\ search_results = << "a1", "a2" >>
    /\ design_layer = initial_design_layer
    /\ selected_graphic = None

\* C23 as stated: whenever the Background URL field is empty in the run in
\* which Generate Real Image is pressed, the render request of studio_tab
\* is sent with background_url null, whatever URLs were entered in earlier
\* runs of the session.
C23_EmptyFieldNoBackground ==
    (app = "moon" /\ bg_url = "") =>
        \A k \in 1..Len(sent) :
            (sent[k].endpoint = "/api/combine-design"
                /\ sent[k].timeout = render_timeout)
                => sent[k].json.background_url = None

====
